---- MODULE Spec2Model ----
(***************************************************************************)
(* Verification model of mlat-client-rust: the Beast deframer of libbeast  *)
(* (read_single_frame, read_beast_buffer) and the Mode-S message decoder   *)
(* (ModesMessage, modes_crc, decode_ac13).                                 *)
(*                                                                         *)
(* Bytes are naturals 0..255.  A Vec<u8> is a sequence of bytes.           *)
(***************************************************************************)
EXTENDS Integers, Sequences, FiniteSets, TLC

VARIABLES
    stream,     \* every byte the link has supplied to read_beast_buffer so far
    buffer,     \* the local `buffer` as read_beast_buffer left it: the remainder
    emitted,    \* the completed raw frames (messages_mlat) of all calls, in order
    calls,      \* number of read_beast_buffer calls made on this stream
    last,       \* the last deframer call: its input, its locals and its result
    message,    \* the ModesMessage record being built and decoded
    msgop,      \* the last operation on message
    msgargs,    \* the arguments of the constructor call that built message
    fcall       \* the last call of a free function: its arguments and result

deframer == <<stream, buffer, emitted, calls, last>>
decoder == <<message, msgop, msgargs>>
vars == <<stream, buffer, emitted, calls, last, message, msgop, msgargs, fcall>>

(***************************************************************************)
(* Bounds of the model.                                                    *)
(***************************************************************************)
MaxCalls == 2       \* read_beast_buffer calls on one stream
MaxChunkLen == 2    \* length of an arbitrary chunk of bytes
MaxEsc == 2         \* literal 0x1A bytes placed in one frame content

(***************************************************************************)
(* Helpers on byte sequences.                                              *)
(***************************************************************************)
RECURSIVE SeqsUpTo(_, _)
SeqsUpTo(S, n) ==
    IF n = 0 THEN {<<>>}
    ELSE LET shorter == SeqsUpTo(S, n - 1)
         IN shorter \cup {Append(s, b) : s \in {x \in shorter : Len(x) = n - 1}, b \in S}

Range(s) == {s[i] : i \in 1..Len(s)}

(***************************************************************************)
(* libbeast: the wire constants of the doc comment of read_single_frame.   *)
(***************************************************************************)
Esc == 26           \* <esc> is 0x1a
TypeModeAC == 49    \* "1" 0x31
TypeShort == 50     \* "2" 0x32
TypeLong == 51      \* "3" 0x33
Markers == {TypeModeAC, TypeShort, TypeLong}

LenModeAC == 10     \* msg.len() != 10
LenShort == 15      \* msg.len() != 15
LenLong == 22       \* msg.len() != 22

FrameLen(msgtype) ==
    CASE msgtype = TypeModeAC -> LenModeAC
      [] msgtype = TypeShort -> LenShort
      [] msgtype = TypeLong -> LenLong

NoError == [kind |-> "none", a |-> 0, b |-> 0]
\* "invalid message: expected {} bytes, received {}"
LenError(expected, received) == [kind |-> "length", a |-> expected, b |-> received]
\* "invalid message: message type {:#02X} is not one of ..."
TypeError(msgtype) == [kind |-> "type", a |-> msgtype, b |-> 0]

(***************************************************************************)
(* The scan loop of read_beast_buffer.  st.i is the index of the byte that *)
(* iter.next() returns next; peek is the byte after it, if any.            *)
(***************************************************************************)
\* BeastScanStep without the msg.clear() of a start marker
BeastScanStep_NoClear(buf, st) ==
    LET byte == buf[st.i]
        hasPeek == st.i < Len(buf)
        peek == IF hasPeek THEN buf[st.i + 1] ELSE -1
        startFrame ==
            IF st.msg # <<>>
            THEN [i |-> st.i + 1, msg |-> st.msg,
                  messages_mlat |-> Append(st.messages_mlat, st.msg)]
            ELSE [st EXCEPT !.i = @ + 1]
    IN  IF byte = Esc /\ hasPeek /\ peek = Esc
        THEN [st EXCEPT !.i = @ + 2, !.msg = Append(@, Esc)]
        ELSE IF byte = Esc /\ ~hasPeek
        THEN [st EXCEPT !.i = @ + 1, !.msg = Append(@, Esc)]
        ELSE IF byte = Esc /\ peek = TypeModeAC THEN startFrame
        ELSE IF byte = Esc /\ peek = TypeShort THEN startFrame
        ELSE IF byte = Esc /\ peek = TypeLong THEN startFrame
        ELSE [st EXCEPT !.i = @ + 1, !.msg = Append(@, byte)]

BeastScanStep(buf, st) ==
    LET byte == buf[st.i]
        hasPeek == st.i < Len(buf)
        peek == IF hasPeek THEN buf[st.i + 1] ELSE -1
        startFrame ==
            IF st.msg # <<>>
            THEN [i |-> st.i + 1, msg |-> <<>>,
                  messages_mlat |-> Append(st.messages_mlat, st.msg)]
            ELSE [st EXCEPT !.i = @ + 1]
    IN  IF byte = Esc /\ hasPeek /\ peek = Esc
        THEN [st EXCEPT !.i = @ + 2, !.msg = Append(@, Esc)]
        ELSE IF byte = Esc /\ ~hasPeek
        THEN [st EXCEPT !.i = @ + 1, !.msg = Append(@, Esc)]
        ELSE IF byte = Esc /\ peek = TypeModeAC THEN startFrame
        ELSE IF byte = Esc /\ peek = TypeShort THEN startFrame
        ELSE IF byte = Esc /\ peek = TypeLong THEN startFrame
        ELSE [st EXCEPT !.i = @ + 1, !.msg = Append(@, byte)]

RECURSIVE BeastScanFrom(_, _)
BeastScanFrom(buf, st) ==
    IF st.i > Len(buf) THEN st ELSE BeastScanFrom(buf, BeastScanStep(buf, st))

\* BeastScan that also completes the frame accumulated at the end of the buffer
BeastScan_FlushLast(buf) ==
    LET st == BeastScanFrom(buf, [i |-> 1, msg |-> <<>>, messages_mlat |-> <<>>])
    IN  IF st.msg # <<>>
        THEN [st EXCEPT !.messages_mlat = Append(@, st.msg), !.msg = <<>>]
        ELSE st

BeastScan(buf) == BeastScanFrom(buf, [i |-> 1, msg |-> <<>>, messages_mlat |-> <<>>])

(***************************************************************************)
(* The scan loop of read_single_frame: the same arms, but a start marker   *)
(* clears msg instead of saving it.                                        *)
(***************************************************************************)
\* SingleScanStep without the iter.next() that skips the second 0x1A of a pair
SingleScanStep_NoSkip(buf, st) ==
    LET byte == buf[st.i]
        hasPeek == st.i < Len(buf)
        peek == IF hasPeek THEN buf[st.i + 1] ELSE -1
        startFrame == [i |-> st.i + 1, msg |-> <<>>]
    IN  IF byte = Esc /\ hasPeek /\ peek = Esc
        THEN [st EXCEPT !.i = @ + 1, !.msg = Append(@, Esc)]
        ELSE IF byte = Esc /\ ~hasPeek
        THEN [st EXCEPT !.i = @ + 1, !.msg = Append(@, Esc)]
        ELSE IF byte = Esc /\ peek = TypeModeAC THEN startFrame
        ELSE IF byte = Esc /\ peek = TypeShort THEN startFrame
        ELSE IF byte = Esc /\ peek = TypeLong THEN startFrame
        ELSE [st EXCEPT !.i = @ + 1, !.msg = Append(@, byte)]

SingleScanStep(buf, st) ==
    LET byte == buf[st.i]
        hasPeek == st.i < Len(buf)
        peek == IF hasPeek THEN buf[st.i + 1] ELSE -1
        startFrame == [i |-> st.i + 1, msg |-> <<>>]
    IN  IF byte = Esc /\ hasPeek /\ peek = Esc
        THEN [st EXCEPT !.i = @ + 2, !.msg = Append(@, Esc)]
        ELSE IF byte = Esc /\ ~hasPeek
        THEN [st EXCEPT !.i = @ + 1, !.msg = Append(@, Esc)]
        ELSE IF byte = Esc /\ peek = TypeModeAC THEN startFrame
        ELSE IF byte = Esc /\ peek = TypeShort THEN startFrame
        ELSE IF byte = Esc /\ peek = TypeLong THEN startFrame
        ELSE [st EXCEPT !.i = @ + 1, !.msg = Append(@, byte)]

RECURSIVE SingleScanFrom(_, _)
SingleScanFrom(buf, st) ==
    IF st.i > Len(buf) THEN st ELSE SingleScanFrom(buf, SingleScanStep(buf, st))

SingleScan(buf) == SingleScanFrom(buf, [i |-> 1, msg |-> <<>>])

(***************************************************************************)
(* The remainder: msg with every 0x1A but a last one doubled, behind one   *)
(* 0x1A; empty when msg is empty.                                          *)
(***************************************************************************)
RECURSIVE ReminderFrom(_, _)
ReminderFrom(msg, i) ==
    IF i > Len(msg) THEN <<>>
    ELSE (IF msg[i] = Esc /\ i - 1 < Len(msg) - 1
          THEN <<msg[i], msg[i]>>
          ELSE <<msg[i]>>) \o ReminderFrom(msg, i + 1)

\* Remainder without the 0x1A put in front
Remainder_NoEsc(msg) ==
    IF msg # <<>> THEN ReminderFrom(msg, 1) ELSE <<>>

Remainder(msg) ==
    IF msg # <<>> THEN <<Esc>> \o ReminderFrom(msg, 1) ELSE <<>>

(***************************************************************************)
(* Frame construction.  A u64 is four 16-bit limbs, most significant       *)
(* first; a hex string is its sequence of hex digits.                      *)
(***************************************************************************)
U64FromBeBytes(b) == [k \in 1..4 |-> b[2 * k - 1] * 256 + b[2 * k]]

RECURSIVE HexString(_)
HexString(bytes) ==
    IF bytes = <<>> THEN <<>>
    ELSE <<Head(bytes) \div 16, Head(bytes) % 16>> \o HexString(Tail(bytes))

\* the payload slice msg[8..10], msg[8..15], msg[8..22] of a frame of the right length
PayloadOf(mm) == SubSeq(mm, 9, FrameLen(mm[1]))

\* MakeFrame with the timestamp read one byte early, from mm[0..5]
MakeFrame_EarlyTimestamp(mm, ms, hexsrc) ==
    [message_type |-> mm[1],
     timestamp |-> U64FromBeBytes(<<0, 0, mm[1], mm[2], mm[3], mm[4], mm[5], mm[6]>>),
     signal |-> mm[8],
     data |-> ms,
     hex |-> HexString(<<Esc>> \o hexsrc)]

\* Frame::default() with message_type, timestamp, signal, data and hex assigned;
\* data is the payload adsb_deku parsed, hexsrc the bytes `hex` is formatted from
MakeFrame(mm, ms, hexsrc) ==
    [message_type |-> mm[1],
     timestamp |-> U64FromBeBytes(<<0, 0, mm[2], mm[3], mm[4], mm[5], mm[6], mm[7]>>),
     signal |-> mm[8],
     data |-> ms,
     hex |-> HexString(<<Esc>> \o hexsrc)]

Result(kind, frames, error) == [kind |-> kind, frames |-> frames, error |-> error]

(***************************************************************************)
(* The extraction loop of read_beast_buffer over messages_mlat.  rej is    *)
(* the set of payloads adsb_deku::Frame::from_bytes fails on (unwrap then  *)
(* panics); msg is the accumulator the scan left.                          *)
(***************************************************************************)
RECURSIVE ExtractFrom(_, _, _, _, _, _)
ExtractFrom(messages_mlat, k, frames, error, msg, rej) ==
    IF k > Len(messages_mlat)
    THEN IF error # NoError THEN Result("Err", <<>>, error)
         ELSE Result("Ok", frames, NoError)
    ELSE LET mm == messages_mlat[k]
             msgtype == mm[1]
         IN  IF msgtype \notin Markers
             THEN ExtractFrom(messages_mlat, k + 1, frames, TypeError(msgtype), msg, rej)
             ELSE IF Len(mm) # FrameLen(msgtype)
             THEN Result("Err", <<>>, LenError(FrameLen(msgtype) + 1, Len(mm) + 1))
             ELSE IF PayloadOf(mm) \in rej
             THEN Result("panic_unwrap", <<>>, NoError)
             ELSE ExtractFrom(messages_mlat, k + 1,
                              Append(frames, MakeFrame(mm, PayloadOf(mm), msg)),
                              error, msg, rej)

\* read_beast_buffer(buffer): the result, with the locals the claims speak of
read_beast_buffer(buf, rej) ==
    LET st == BeastScan(buf)
        res == ExtractFrom(st.messages_mlat, 1, <<>>, NoError, st.msg, rej)
    IN  [fn |-> "read_beast_buffer", input |-> buf,
         msg |-> st.msg, messages_mlat |-> st.messages_mlat,
         buffer |-> Remainder(st.msg),
         kind |-> res.kind, frames |-> res.frames, error |-> res.error]

\* read_single_frame(buffer)
read_single_frame(buf, rej) ==
    LET msg == SingleScan(buf).msg
        res == IF msg = <<>> THEN Result("panic_index", <<>>, NoError)
               ELSE IF msg[1] \notin Markers THEN Result("Err", <<>>, TypeError(msg[1]))
               ELSE IF Len(msg) # FrameLen(msg[1])
               THEN Result("Err", <<>>, LenError(FrameLen(msg[1]) + 1, Len(msg) + 1))
               ELSE IF PayloadOf(msg) \in rej THEN Result("panic_unwrap", <<>>, NoError)
               ELSE Result("Ok", <<MakeFrame(msg, PayloadOf(msg), msg)>>, NoError)
    IN  [fn |-> "read_single_frame", input |-> buf,
         msg |-> msg, messages_mlat |-> <<>>,
         buffer |-> buf,
         kind |-> res.kind, frames |-> res.frames, error |-> res.error]

\* the payloads a call hands to adsb_deku
PayloadsIn(raws) ==
    {PayloadOf(raws[k]) : k \in {j \in 1..Len(raws) :
        raws[j] # <<>> /\ raws[j][1] \in Markers /\ Len(raws[j]) = FrameLen(raws[j][1])}}

NoCall ==
    [fn |-> "none", input |-> <<>>, msg |-> <<>>, messages_mlat |-> <<>>,
     buffer |-> <<>>, kind |-> "none", frames |-> <<>>, error |-> NoError]

\* the arguments of a constructor call: (timestamp, signal, data) of the
\* from_buffer constructors, (event_type, timestamp, eventdata) of the event ones
NoArgs ==
    [fn |-> "none", timestamp |-> 0, signal |-> 0, data |-> <<>>,
     event_type |-> 0, eventdata |-> <<>>]
BufferArgs(fn, timestamp, signal, data) ==
    [NoArgs EXCEPT !.fn = fn, !.timestamp = timestamp, !.signal = signal, !.data = data]
EventArgs(fn, event_type, timestamp, eventdata) ==
    [NoArgs EXCEPT !.fn = fn, !.event_type = event_type, !.timestamp = timestamp,
                   !.eventdata = eventdata]

\* before any call of checksum, checksum_compare, modescrc_buffer_crc, decode_ac13
NoFunction ==
    [fn |-> "none", data |-> <<>>, bits |-> -1, arg |-> 0,
     panic |-> FALSE, value |-> 0, ok |-> FALSE]

(***************************************************************************)
(* Bit operations on naturals.                                             *)
(***************************************************************************)
RECURSIVE BitAnd(_, _)
BitAnd(a, b) ==
    IF a = 0 \/ b = 0 THEN 0
    ELSE (a % 2) * (b % 2) + 2 * BitAnd(a \div 2, b \div 2)

RECURSIVE BitXor(_, _)
BitXor(a, b) ==
    IF a = 0 THEN b
    ELSE IF b = 0 THEN a
    ELSE ((a + b) % 2) + 2 * BitXor(a \div 2, b \div 2)

BitOr(a, b) == a + b - BitAnd(a, b)

(***************************************************************************)
(* modes_crc.rs: the parity table and the checksum functions.  An absent   *)
(* `bits` argument (None) is NoBits.                                       *)
(***************************************************************************)
LONG_MSG_BITS == 112
SHORT_MSG_BITS == 56
NoBits == -1

PARITY_TABLE == <<
    \h3935ea, \h1c9af5, \hf1b77e, \h78dbbf, \hc397db, \h9e31e9, \hb0e2f0, \h587178,
    \h2c38bc, \h161c5e, \h0b0e2f, \hfa7d13, \h82c48d, \hbe9842, \h5f4c21, \hd05c14,
    \h682e0a, \h341705, \he5f186, \h72f8c3, \hc68665, \h9cb936, \h4e5c9b, \hd8d449,
    \h939020, \h49c810, \h24e408, \h127204, \h093902, \h049c81, \hfdb444, \h7eda22,
    \h3f6d11, \he04c8c, \h702646, \h381323, \he3f395, \h8e03ce, \h4701e7, \hdc7af7,
    \h91c77f, \hb719bb, \ha476d9, \hadc168, \h56e0b4, \h2b705a, \h15b82d, \hf52612,
    \h7a9309, \hc2b380, \h6159c0, \h30ace0, \h185670, \h0c2b38, \h06159c, \h030ace,
    \h018567, \hff38b7, \h80665f, \hbfc92b, \ha01e91, \haff54c, \h57faa6, \h2bfd53,
    \hea04ad, \h8af852, \h457c29, \hdd4410, \h6ea208, \h375104, \h1ba882, \h0dd441,
    \hf91024, \h7c8812, \h3e4409, \he0d800, \h706c00, \h383600, \h1c1b00, \h0e0d80,
    \h0706c0, \h038360, \h01c1b0, \h00e0d8, \h00706c, \h003836, \h001c1b, \hfff409,
    \h000000, \h000000, \h000000, \h000000, \h000000, \h000000, \h000000, \h000000,
    \h000000, \h000000, \h000000, \h000000, \h000000, \h000000, \h000000, \h000000,
    \h000000, \h000000, \h000000, \h000000, \h000000, \h000000, \h000000, \h000000
>>

\* the loop `for j in 0..bits` of checksum over the bits j..bits-1: the xor
\* of the table entries of the set bits, computed over the two halves of the range
RECURSIVE ParityFrom(_, _, _, _)
ParityFrom(data, j, bits, offset) ==
    IF j >= bits THEN 0
    ELSE IF j + 1 = bits
    THEN LET b == j \div 8
             bit == j % 8
             bitmask == 2 ^ (7 - bit)
             set == b < Len(data) /\ BitAnd(data[b + 1], bitmask) # 0
         IN  IF set THEN PARITY_TABLE[j + offset + 1] ELSE 0
    ELSE LET mid == (j + bits) \div 2
         IN  BitXor(ParityFrom(data, j, mid, offset), ParityFrom(data, mid, bits, offset))

\* checksum with the table read from its start for every message length
checksum_NoOffset(data, bits) ==
    LET nbits == IF bits # NoBits THEN bits
                 ELSE IF Len(data) * 8 = SHORT_MSG_BITS THEN SHORT_MSG_BITS
                 ELSE IF Len(data) * 8 = LONG_MSG_BITS THEN LONG_MSG_BITS
                 ELSE NoBits
        offset == 0
    IN  IF nbits = NoBits THEN 0 ELSE ParityFrom(data, 0, nbits, offset)

checksum(data, bits) ==
    LET nbits == IF bits # NoBits THEN bits
                 ELSE IF Len(data) * 8 = SHORT_MSG_BITS THEN SHORT_MSG_BITS
                 ELSE IF Len(data) * 8 = LONG_MSG_BITS THEN LONG_MSG_BITS
                 ELSE NoBits
        offset == IF nbits = LONG_MSG_BITS THEN 0 ELSE LONG_MSG_BITS - SHORT_MSG_BITS
    IN  IF nbits = NoBits THEN 0 ELSE ParityFrom(data, 0, nbits, offset)

modescrc_buffer_crc(data, bits) ==
    LET bytes == (IF bits # NoBits THEN bits ELSE Len(data) * 8) \div 8
    IN  IF bytes < 3 THEN 0
        ELSE data[bytes - 2] * 65536 + data[bytes - 1] * 256 + data[bytes]

\* the parity loop reads PARITY_TABLE[j + offset] past the end of the table:
\* a bit of data is set at a position j of 0..bits whose index is not below 112
ParityIndexPanics(data, nbits) ==
    LET offset == IF nbits = LONG_MSG_BITS THEN 0 ELSE LONG_MSG_BITS - SHORT_MSG_BITS
    IN  \E j \in 0..(nbits - 1) :
            /\ j + offset >= Len(PARITY_TABLE)
            /\ j \div 8 < Len(data)
            /\ BitAnd(data[j \div 8 + 1], 2 ^ (7 - (j % 8))) # 0

\* modescrc_buffer_crc reads data[bytes - 1] behind the end of data
BufferCrcPanics(data, bits) ==
    LET bytes == (IF bits # NoBits THEN bits ELSE Len(data) * 8) \div 8
    IN  bytes >= 3 /\ bytes > Len(data)

\* the `match bits` of checksum and of checksum_compare
ResolveBits(data, bits) ==
    IF bits # NoBits THEN bits
    ELSE IF Len(data) * 8 = SHORT_MSG_BITS THEN SHORT_MSG_BITS
    ELSE IF Len(data) * 8 = LONG_MSG_BITS THEN LONG_MSG_BITS
    ELSE NoBits

ChecksumPanics(data, bits) ==
    ResolveBits(data, bits) # NoBits /\ ParityIndexPanics(data, ResolveBits(data, bits))

ChecksumComparePanics(data, bits) ==
    /\ ResolveBits(data, bits) # NoBits
    /\ \/ BufferCrcPanics(data, ResolveBits(data, bits))
       \/ ParityIndexPanics(data, ResolveBits(data, bits))

\* checksum_compare with the first byte of the received checksum dropped
checksum_compare_ShortCrc(data, bits) ==
    LET nbits == ResolveBits(data, bits)
        offset == IF nbits = LONG_MSG_BITS THEN 0 ELSE LONG_MSG_BITS - SHORT_MSG_BITS
        received_checksum == modescrc_buffer_crc(data, nbits) % 65536
        expected_checksum == ParityFrom(data, 0, nbits, offset)
    IN  IF nbits = NoBits THEN FALSE ELSE received_checksum = expected_checksum

checksum_compare(data, bits) ==
    LET nbits == ResolveBits(data, bits)
        offset == IF nbits = LONG_MSG_BITS THEN 0 ELSE LONG_MSG_BITS - SHORT_MSG_BITS
        received_checksum == modescrc_buffer_crc(data, nbits)
        expected_checksum == ParityFrom(data, 0, nbits, offset)
    IN  IF nbits = NoBits THEN FALSE ELSE received_checksum = expected_checksum

(***************************************************************************)
(* modes_message.rs: the altitude decoders.  An Option<i32> is a record.   *)
(***************************************************************************)
None == [some |-> FALSE, value |-> 0]
Some(v) == [some |-> TRUE, value |-> v]

XorIf(v, cond, k) == IF cond THEN BitXor(v, k) ELSE v

\* decode_ac13 without the test of the M bit
decode_ac13_NoMBit(ac13) ==
    IF ac13 = 0 THEN None
    ELSE IF BitAnd(ac13, \h0010) # 0
    THEN LET n == BitOr(BitOr(BitAnd(ac13, \h1F80) \div 4, BitAnd(ac13, \h0020) \div 2),
                        BitAnd(ac13, \h000F))
         IN  Some(n * 25 - 1000)
    ELSE IF BitAnd(ac13, \h1500) = 0 THEN None
    ELSE LET h0 == XorIf(XorIf(XorIf(0, BitAnd(ac13, \h1000) # 0, 7),
                               BitAnd(ac13, \h0400) # 0, 3),
                         BitAnd(ac13, \h0100) # 0, 1)
             h1 == IF BitAnd(h0, 5) # 0 THEN BitXor(h0, 5) ELSE h0
             f1 == XorIf(0, BitAnd(ac13, \h0010) # 0, \h1ff)
             f2 == XorIf(f1, BitAnd(ac13, \h0004) # 0, \h0ff)
             f3 == XorIf(f2, BitAnd(ac13, \h0001) # 0, \h07f)
             f4 == XorIf(f3, BitAnd(ac13, \h0800) # 0, \h03f)
             f5 == XorIf(f4, BitAnd(ac13, \h0200) # 0, \h01f)
             f6 == XorIf(f5, BitAnd(ac13, \h0080) # 0, \h00f)
             f7 == XorIf(f6, BitAnd(ac13, \h0020) # 0, \h007)
             f8 == XorIf(f7, BitAnd(ac13, \h0008) # 0, \h003)
             f == XorIf(f8, BitAnd(ac13, \h0002) # 0, \h001)
             h == IF BitAnd(f, 1) # 0 THEN 6 - h1 ELSE h1
             a == 500 * f + 100 * h - 1300
         IN  IF h1 > 5 THEN None
             ELSE IF a < -1200 THEN None
             ELSE Some(a)

\* decode_ac13 without the rejection of altitudes below -1200
decode_ac13_NoFloor(ac13) ==
    IF ac13 = 0 \/ BitAnd(ac13, \h0040) # 0 THEN None
    ELSE IF BitAnd(ac13, \h0010) # 0
    THEN LET n == BitOr(BitOr(BitAnd(ac13, \h1F80) \div 4, BitAnd(ac13, \h0020) \div 2),
                        BitAnd(ac13, \h000F))
         IN  Some(n * 25 - 1000)
    ELSE IF BitAnd(ac13, \h1500) = 0 THEN None
    ELSE LET h0 == XorIf(XorIf(XorIf(0, BitAnd(ac13, \h1000) # 0, 7),
                               BitAnd(ac13, \h0400) # 0, 3),
                         BitAnd(ac13, \h0100) # 0, 1)
             h1 == IF BitAnd(h0, 5) # 0 THEN BitXor(h0, 5) ELSE h0
             f1 == XorIf(0, BitAnd(ac13, \h0010) # 0, \h1ff)
             f2 == XorIf(f1, BitAnd(ac13, \h0004) # 0, \h0ff)
             f3 == XorIf(f2, BitAnd(ac13, \h0001) # 0, \h07f)
             f4 == XorIf(f3, BitAnd(ac13, \h0800) # 0, \h03f)
             f5 == XorIf(f4, BitAnd(ac13, \h0200) # 0, \h01f)
             f6 == XorIf(f5, BitAnd(ac13, \h0080) # 0, \h00f)
             f7 == XorIf(f6, BitAnd(ac13, \h0020) # 0, \h007)
             f8 == XorIf(f7, BitAnd(ac13, \h0008) # 0, \h003)
             f == XorIf(f8, BitAnd(ac13, \h0002) # 0, \h001)
             h == IF BitAnd(f, 1) # 0 THEN 6 - h1 ELSE h1
             a == 500 * f + 100 * h - 1300
         IN  IF h1 > 5 THEN None
             ELSE Some(a)

decode_ac13(ac13) ==
    IF ac13 = 0 \/ BitAnd(ac13, \h0040) # 0 THEN None
    ELSE IF BitAnd(ac13, \h0010) # 0
    THEN LET n == BitOr(BitOr(BitAnd(ac13, \h1F80) \div 4, BitAnd(ac13, \h0020) \div 2),
                        BitAnd(ac13, \h000F))
         IN  Some(n * 25 - 1000)
    ELSE IF BitAnd(ac13, \h1500) = 0 THEN None
    ELSE LET h0 == XorIf(XorIf(XorIf(0, BitAnd(ac13, \h1000) # 0, 7),
                               BitAnd(ac13, \h0400) # 0, 3),
                         BitAnd(ac13, \h0100) # 0, 1)
             h1 == IF BitAnd(h0, 5) # 0 THEN BitXor(h0, 5) ELSE h0
             f1 == XorIf(0, BitAnd(ac13, \h0010) # 0, \h1ff)
             f2 == XorIf(f1, BitAnd(ac13, \h0004) # 0, \h0ff)
             f3 == XorIf(f2, BitAnd(ac13, \h0001) # 0, \h07f)
             f4 == XorIf(f3, BitAnd(ac13, \h0800) # 0, \h03f)
             f5 == XorIf(f4, BitAnd(ac13, \h0200) # 0, \h01f)
             f6 == XorIf(f5, BitAnd(ac13, \h0080) # 0, \h00f)
             f7 == XorIf(f6, BitAnd(ac13, \h0020) # 0, \h007)
             f8 == XorIf(f7, BitAnd(ac13, \h0008) # 0, \h003)
             f == XorIf(f8, BitAnd(ac13, \h0002) # 0, \h001)
             h == IF BitAnd(f, 1) # 0 THEN 6 - h1 ELSE h1
             a == 500 * f + 100 * h - 1300
         IN  IF h1 > 5 THEN None
             ELSE IF a < -1200 THEN None
             ELSE Some(a)

decode_ac12(ac12) ==
    decode_ac13(BitOr(BitAnd(ac12, \h0fc0) * 2, BitAnd(ac12, \h003f)))

(***************************************************************************)
(* modes.rs and modes_message.rs: the message record.  Both files define   *)
(* a ModesMessage with the same fields and the same decode; `impl` names   *)
(* the file whose constructor built the record.                            *)
(***************************************************************************)
DF_MODEAC == 32
DF_EVENT_TIMESTAMP_JUMP == 33
DF_EVENT_MODE_CHANGE == 34
DF_EVENT_EPOCH_ROLLOVER == 35
DF_EVENT_RADARCAPE_STATUS == 36
DF_EVENT_RADARCAPE_POSITION == 37

\* ModesMessage::default() of modes_message.rs
DefaultMessage ==
    [impl |-> "modes_message", timestamp |-> 0, signal |-> 0, df |-> 0, nuc |-> 0,
     even_cpr |-> FALSE, odd_cpr |-> FALSE, valid |-> FALSE, crc |-> 0,
     address |-> 0, altitude |-> 0, data |-> <<>>, datalen |-> 0, eventdata |-> <<>>]

\* ModesMessage::new of modes.rs and of modes_message.rs: every field is an
\* argument; derived holds df, nuc, even_cpr, odd_cpr, valid, crc, address, altitude
new(timestamp, signal, derived, data, datalen, eventdata) ==
    [impl |-> "new", timestamp |-> timestamp, signal |-> signal, df |-> derived.df,
     nuc |-> derived.nuc, even_cpr |-> derived.even_cpr, odd_cpr |-> derived.odd_cpr,
     valid |-> derived.valid, crc |-> derived.crc, address |-> derived.address,
     altitude |-> derived.altitude, data |-> data, datalen |-> datalen,
     eventdata |-> eventdata]

\* ModesMessage::from_buffer of modes.rs
from_buffer(timestamp, signal, data) ==
    [impl |-> "modes", timestamp |-> timestamp, signal |-> signal, df |-> 0, nuc |-> 0,
     even_cpr |-> FALSE, odd_cpr |-> FALSE, valid |-> FALSE, crc |-> 0,
     address |-> 0, altitude |-> 0, data |-> data, datalen |-> Len(data),
     eventdata |-> <<>>]

\* ModesMessage::from_buffer of modes_message.rs
from_buffer_default(timestamp, signal, data) == DefaultMessage

\* modesmessage_from_buffer of modes_message.rs
modesmessage_from_buffer(timestamp, signal, data, datalen) ==
    [DefaultMessage EXCEPT !.timestamp = timestamp, !.signal = signal, !.data = data]

\* ModesMessage::new_event_message of modes.rs; a key/value mapping is the
\* sequence of its <<key, value>> pairs in key order
new_event_message(event_type, timestamp, eventdata) ==
    [impl |-> "modes", timestamp |-> timestamp, signal |-> 0, df |-> event_type,
     nuc |-> 0, even_cpr |-> FALSE, odd_cpr |-> FALSE, valid |-> FALSE, crc |-> 0,
     address |-> 0, altitude |-> 0, data |-> <<>>, datalen |-> 0,
     eventdata |-> eventdata]

\* ModesMessage::new_event_message of modes_message.rs
new_event_message_default(event_type, timestamp, eventdata) == DefaultMessage

\* modesmessage_new_eventmessage of modes_message.rs
modesmessage_new_eventmessage(msgtype, timestamp, eventdata) ==
    [DefaultMessage EXCEPT !.df = msgtype, !.timestamp = timestamp,
                           !.eventdata = eventdata]

\* ModeACAddress with the two bytes taken low byte first
ModeACAddress_Swapped(data) == data[2] * 256 + data[1]

\* the address of a Mode-A/C reply: (data[0] << 8) | data[1]
ModeACAddress(data) == data[1] * 256 + data[2]

\* (data[1] << 16) | (data[2] << 8) | data[3]
Address24(data) == data[2] * 65536 + data[3] * 256 + data[4]

Returned(self) == [m |-> self, panic |-> FALSE]
Panicked(self) == [m |-> self, panic |-> TRUE]

\* the `match self.df` of decode; self.crc is still 0 here, the
\* crc_residual call being commented out
DecodeDF(self) ==
    CASE self.df \in {0, 4, 16, 20} ->
            LET a == [self EXCEPT !.address = self.crc]
            IN  IF Len(self.data) < 4 THEN Panicked(a)
                ELSE LET alt == decode_ac13(BitOr(BitAnd(self.data[3], \h1f) * 256,
                                                  self.data[4]))
                     IN  IF ~alt.some THEN Panicked(a)
                         ELSE Returned([a EXCEPT !.altitude = alt.value, !.valid = TRUE])
      [] self.df \in {5, 21, 24} ->
            Returned([self EXCEPT !.address = self.crc, !.valid = TRUE])
      [] self.df = 11 ->
            LET v == [self EXCEPT !.valid = ((self.crc \div 128) * 128 = 0)]
            IN  IF ~v.valid THEN Returned(v)
                ELSE IF Len(self.data) < 4 THEN Panicked(v)
                ELSE Returned([v EXCEPT !.address = Address24(self.data)])
      [] self.df \in {17, 18} ->
            LET v == [self EXCEPT !.valid = FALSE, !.crc = 0]
                metype == v.data[5] \div 8
                position == (metype >= 9 /\ metype <= 18) \/ (metype >= 20 /\ metype < 22)
                nuc == IF metype = 22 THEN 0
                       ELSE IF metype <= 18 THEN 18 - metype ELSE 29 - metype
                odd == BitAnd(v.data[7], \h04) # 0
                alt == decode_ac12(BitOr((v.data[6] * 16) % 256,
                                         BitAnd(v.data[7], \hF0) \div 16))
            IN  IF ~v.valid THEN Returned(v)
                ELSE IF Len(v.data) < 5 THEN Panicked(v)
                ELSE IF ~position THEN Returned([v EXCEPT !.address = Address24(v.data)])
                ELSE IF Len(v.data) < 7 \/ ~alt.some
                THEN Panicked([v EXCEPT !.address = Address24(v.data), !.nuc = nuc,
                                        !.odd_cpr = odd, !.even_cpr = ~odd])
                ELSE Returned([v EXCEPT !.address = Address24(v.data), !.nuc = nuc,
                                        !.odd_cpr = odd, !.even_cpr = ~odd,
                                        !.altitude = alt.value])
      [] OTHER -> Returned(self)

\* decode without the test of the length against the downlink format
decode_NoLengthCheck(self) ==
    LET c == [self EXCEPT !.valid = FALSE, !.nuc = 0, !.odd_cpr = FALSE,
                          !.even_cpr = FALSE, !.crc = 0, !.address = 0, !.altitude = 0]
    IN  IF c.datalen = 2
        THEN IF Len(c.data) < 2 THEN Panicked([c EXCEPT !.df = DF_MODEAC])
             ELSE Returned([c EXCEPT !.df = DF_MODEAC, !.address = ModeACAddress(c.data),
                                     !.valid = TRUE])
        ELSE IF Len(c.data) < 1 THEN Panicked(c)
        ELSE LET d == [c EXCEPT !.df = (c.data[1] \div 8) % 32]
             IN  IF d.df \notin {0, 4, 5, 11, 16, 17, 18, 20, 21}
                 THEN Returned(d)
                 ELSE DecodeDF(d)

\* ModesMessage::decode
decode(self) ==
    LET c == [self EXCEPT !.valid = FALSE, !.nuc = 0, !.odd_cpr = FALSE,
                          !.even_cpr = FALSE, !.crc = 0, !.address = 0, !.altitude = 0]
    IN  IF c.datalen = 2
        THEN IF Len(c.data) < 2 THEN Panicked([c EXCEPT !.df = DF_MODEAC])
             ELSE Returned([c EXCEPT !.df = DF_MODEAC, !.address = ModeACAddress(c.data),
                                     !.valid = TRUE])
        ELSE IF Len(c.data) < 1 THEN Panicked(c)
        ELSE LET d == [c EXCEPT !.df = (c.data[1] \div 8) % 32]
             IN  IF (d.df < 16 /\ d.datalen # 7) \/ (d.df >= 16 /\ d.datalen # 14)
                 THEN Returned(d)
                 ELSE IF d.df \notin {0, 4, 5, 11, 16, 17, 18, 20, 21}
                 THEN Returned(d)
                 ELSE DecodeDF(d)

(***************************************************************************)
(* What the link supplies.  The receiver prefixes 0x1A to a frame content  *)
(* (type marker, 6 timestamp bytes, signal byte, payload) and doubles      *)
(* every 0x1A inside it.                                                   *)
(***************************************************************************)
RECURSIVE Stuff(_)
Stuff(content) ==
    IF content = <<>> THEN <<>>
    ELSE (IF Head(content) = Esc THEN <<Esc, Esc>> ELSE <<Head(content)>>)
         \o Stuff(Tail(content))

Encode(content) == <<Esc>> \o Stuff(content)

\* 1A 31 00 00 00 00 00 01 05 12 34: Mode-A/C, timestamp 1, signal 5, payload 1234
ContentAC == <<49, 0, 0, 0, 0, 0, 1, 5, 18, 52>>
\* Mode-A/C whose signal is 0x1A, directly before a payload byte 0x31, and
\* whose last payload byte is 0x1A
ContentACEsc == <<49, 0, 0, 0, 0, 0, 2, 26, 49, 26>>
\* short Mode-S, DF11
ContentShort == <<50, 0, 0, 0, 0, 1, 0, 64, 93, 72, 64, 214, 1, 2, 3>>
\* long Mode-S, DF17
ContentLong ==
    <<51, 0, 0, 0, 1, 0, 0, 200,
      141, 72, 64, 214, 32, 44, 195, 113, 195, 44, 224, 87, 96, 152>>
\* a Mode-A/C frame one byte short
ContentBadLen == <<49, 0, 0, 0, 0, 0, 3, 5, 18>>

WireAC == Encode(ContentAC)
WireACEsc == Encode(ContentACEsc)
WireShort == Encode(ContentShort)
WireLong == Encode(ContentLong)
WireBadLen == Encode(ContentBadLen)

Alphabet == {Esc, TypeModeAC, 5}
ArbChunks == SeqsUpTo(Alphabet, MaxChunkLen)

\* whole frames, two frames in one chunk, a frame behind a stray byte, and
\* a frame cut inside and directly after its doubled 0x1A
FrameChunks ==
    {WireAC, WireACEsc, WireShort, WireLong, WireBadLen, <<5>> \o WireAC,
     WireACEsc \o WireAC}
    \cup {a \o b : a, b \in {WireAC, WireShort, WireBadLen}}
    \cup {SubSeq(WireACEsc, 1, 9), SubSeq(WireACEsc, 1, 10),
          SubSeq(WireACEsc, 10, Len(WireACEsc)), SubSeq(WireACEsc, 11, Len(WireACEsc))}

Chunks == ArbChunks \cup FrameChunks

\* frame contents of each valid length with up to MaxEsc bytes 0x1A anywhere
\* behind the type marker; every other byte is 0x31, 0x32 or 0x33
EscPlacements(n) == {S \in SUBSET (2..n) : Cardinality(S) <= MaxEsc}

MakeContent(msgtype, S) ==
    [i \in 1..FrameLen(msgtype) |->
        IF i = 1 THEN msgtype ELSE IF i \in S THEN Esc ELSE TypeModeAC + (i % 3)]

Contents ==
    UNION {{MakeContent(t, S) : S \in EscPlacements(FrameLen(t))} : t \in Markers}

\* inputs with no frame in them: empty, no start marker, a truncated frame
EdgeInputs ==
    {<<>>, <<5>>, <<5, 49>>, <<Esc>>, <<Esc, Esc>>, <<Esc, 49>>,
     SubSeq(WireAC, 1, 6), WireBadLen}

EncodedContents == {Encode(c) : c \in Contents}

IsolatedInputs ==
    EncodedContents
    \cup {Encode(c) \o <<Esc, TypeModeAC>> : c \in Contents}
    \cup EdgeInputs

(***************************************************************************)
(* The state machine.                                                      *)
(***************************************************************************)
Init ==
    /\ stream = <<>>
    /\ buffer = <<>>
    /\ emitted = <<>>
    /\ calls = 0
    /\ last = NoCall
    /\ message = DefaultMessage
    /\ msgop = "none"
    /\ msgargs = NoArgs
    /\ fcall = NoFunction

\* one call of read_beast_buffer on the retained remainder and a new chunk
ReadBeastBuffer(chunk) ==
    /\ calls < MaxCalls
    /\ \E rej \in SUBSET PayloadsIn(BeastScan(buffer \o chunk).messages_mlat) :
         LET r == read_beast_buffer(buffer \o chunk, rej)
         IN  /\ last' = r
             /\ buffer' = r.buffer
             /\ emitted' = emitted \o r.messages_mlat
    /\ stream' = stream \o chunk
    /\ calls' = calls + 1
    /\ UNCHANGED <<decoder, fcall>>

\* one call of read_single_frame on a self-contained input
ReadSingleFrame(buf) ==
    /\ \E rej \in SUBSET PayloadsIn(<<SingleScan(buf).msg>>) :
         last' = read_single_frame(buf, rej)
    /\ UNCHANGED <<stream, buffer, emitted, calls>>
    /\ UNCHANGED <<decoder, fcall>>

\* the streaming loop: chunks arrive in order, each scanned behind the remainder
Next == \E chunk \in Chunks : ReadBeastBuffer(chunk)

Spec == Init /\ [][Next]_vars

\* isolated inputs: one call of either entry point on a fresh buffer
DecodeAll == \E buf \in IsolatedInputs : last = NoCall /\ ReadBeastBuffer(buf)
DecodeOne == \E buf \in IsolatedInputs : last = NoCall /\ ReadSingleFrame(buf)

NextFrame == DecodeAll \/ DecodeOne

SpecFrame == Init /\ [][NextFrame]_vars

(***************************************************************************)
(* The message decoder: a record is built from a timestamp, a signal level *)
(* and a payload, and then decoded.                                        *)
(***************************************************************************)
\* Mode-A/C replies; the first is the payload of ContentAC
PayloadsAC == {<<18, 52>>, <<0, 0>>, <<255, 255>>}
\* DF11: residual 0, residual 0x25 (low 7 bits only), residual 0x800000
PayloadsDF11 ==
    {<<93, 72, 64, 214, 248, 116, 15>>,
     <<93, 72, 64, 214, 248, 116, 42>>,
     <<93, 72, 64, 214, 120, 116, 15>>}
\* DF17: identification (metype 4), airborne position even and odd
\* (metype 11); DF18 with metype 11
PayloadsDF17 ==
    {<<141, 72, 64, 214, 32, 44, 195, 113, 195, 44, 224, 87, 96, 152>>,
     <<141, 64, 98, 29, 88, 195, 130, 214, 144, 200, 172, 40, 99, 167>>,
     <<141, 64, 98, 29, 88, 195, 134, 67, 92, 196, 18, 105, 42, 214>>,
     <<144, 64, 98, 29, 88, 195, 134, 67, 92, 196, 18, 105, 42, 214>>}
\* DF0, DF4, DF20 with a Q-bit altitude, DF4 with a Gillham altitude,
\* DF4 with altitude field zero, DF4 with the M bit set, DF5, DF21
PayloadsReply ==
    {<<2, 0, 5, 48, 1, 2, 3>>,
     <<32, 0, 5, 48, 1, 2, 3>>,
     <<160, 0, 5, 48, 0, 0, 0, 0, 0, 0, 0, 1, 2, 3>>,
     <<32, 0, 4, 2, 1, 2, 3>>,
     <<32, 0, 0, 0, 1, 2, 3>>,
     <<32, 0, 0, 64, 1, 2, 3>>,
     <<40, 0, 5, 48, 1, 2, 3>>,
     <<168, 0, 5, 48, 0, 0, 0, 0, 0, 0, 0, 1, 2, 3>>}
\* a format that is not decoded (DF24, DF1), a length that does not match
\* the format, an empty payload
PayloadsRejected ==
    {<<192, 0, 0, 0, 0, 0, 0, 0, 0, 0, 0, 0, 0, 0>>,
     <<8, 0, 0, 0, 0, 0, 0>>,
     <<141, 72, 64, 214, 32, 44, 195>>,
     <<93, 72, 64, 214, 248, 116, 15, 0, 0, 0, 0, 0, 0, 0>>,
     <<93, 72, 64>>,
     <<>>}

Payloads == PayloadsAC \cup PayloadsDF11 \cup PayloadsDF17 \cup PayloadsReply
            \cup PayloadsRejected
Timestamps == {0, 1}
Signals == {0, 5}

FromBuffer(timestamp, signal, data) ==
    /\ message' = from_buffer(timestamp, signal, data)
    /\ msgop' = "from_buffer"
    /\ msgargs' = BufferArgs("modes::from_buffer", timestamp, signal, data)
    /\ UNCHANGED <<deframer, fcall>>

FromBufferDefault(timestamp, signal, data) ==
    /\ message' = from_buffer_default(timestamp, signal, data)
    /\ msgop' = "from_buffer"
    /\ msgargs' = BufferArgs("modes_message::from_buffer", timestamp, signal, data)
    /\ UNCHANGED <<deframer, fcall>>

ModesmessageFromBuffer(timestamp, signal, data) ==
    /\ message' = modesmessage_from_buffer(timestamp, signal, data, Len(data))
    /\ msgop' = "from_buffer"
    /\ msgargs' = BufferArgs("modesmessage_from_buffer", timestamp, signal, data)
    /\ UNCHANGED <<deframer, fcall>>

\* the derived fields a caller of `new` passes: all clear, or left over from
\* an earlier decode
DerivedFields ==
    {[df |-> 0, nuc |-> 0, even_cpr |-> FALSE, odd_cpr |-> FALSE, valid |-> FALSE,
      crc |-> 0, address |-> 0, altitude |-> 0],
     [df |-> 17, nuc |-> 7, even_cpr |-> TRUE, odd_cpr |-> TRUE, valid |-> TRUE,
      crc |-> 9, address |-> 4735190, altitude |-> 7400]}

\* `new` with datalen = data.len(), as from_buffer of modes.rs computes it
New(timestamp, signal, derived, data) ==
    /\ message' = new(timestamp, signal, derived, data, Len(data), <<>>)
    /\ msgop' = "new"
    /\ msgargs' = BufferArgs("new", timestamp, signal, data)
    /\ UNCHANGED <<deframer, fcall>>

\* decode of the record a constructor returned; a panic leaves the record
\* as far as decode had assigned it
Decode ==
    /\ msgop \in {"from_buffer", "new"}
    /\ LET r == decode(message)
       IN  /\ message' = r.m
           /\ msgop' = IF r.panic THEN "decode_panic" ELSE "decode"
    /\ UNCHANGED <<deframer, msgargs, fcall>>

\* the five event sentinels, and diagnostic mappings with 0, 1 and 2 keys
EventTypes ==
    {DF_EVENT_TIMESTAMP_JUMP, DF_EVENT_MODE_CHANGE, DF_EVENT_EPOCH_ROLLOVER,
     DF_EVENT_RADARCAPE_STATUS, DF_EVENT_RADARCAPE_POSITION}
EventMaps ==
    {<<>>, <<<<"mode", "radarcape">>>>, <<<<"frequency", "12000000">>, <<"mode", "beast">>>>}

NewEventMessage(event_type, timestamp, eventdata) ==
    /\ message' = new_event_message(event_type, timestamp, eventdata)
    /\ msgop' = "new_event_message"
    /\ msgargs' = EventArgs("modes::new_event_message", event_type, timestamp, eventdata)
    /\ UNCHANGED <<deframer, fcall>>

NewEventMessageDefault(event_type, timestamp, eventdata) ==
    /\ message' = new_event_message_default(event_type, timestamp, eventdata)
    /\ msgop' = "new_event_message"
    /\ msgargs' = EventArgs("modes_message::new_event_message", event_type, timestamp,
                            eventdata)
    /\ UNCHANGED <<deframer, fcall>>

ModesmessageNewEventmessage(msgtype, timestamp, eventdata) ==
    /\ message' = modesmessage_new_eventmessage(msgtype, timestamp, eventdata)
    /\ msgop' = "new_event_message"
    /\ msgargs' = EventArgs("modesmessage_new_eventmessage", msgtype, timestamp, eventdata)
    /\ UNCHANGED <<deframer, fcall>>

NextMsg ==
    \/ \E t \in Timestamps, g \in Signals, d \in Payloads : FromBuffer(t, g, d)
    \/ \E t \in Timestamps, g \in Signals, d \in Payloads : FromBufferDefault(t, g, d)
    \/ \E t \in Timestamps, g \in Signals, d \in Payloads : ModesmessageFromBuffer(t, g, d)
    \/ \E t \in Timestamps, g \in Signals, f \in DerivedFields, d \in Payloads :
           New(t, g, f, d)
    \/ \E e \in EventTypes, t \in Timestamps, m \in EventMaps : NewEventMessage(e, t, m)
    \/ \E e \in EventTypes, t \in Timestamps, m \in EventMaps :
           NewEventMessageDefault(e, t, m)
    \/ \E e \in EventTypes, t \in Timestamps, m \in EventMaps :
           ModesmessageNewEventmessage(e, t, m)
    \/ Decode

SpecMsg == Init /\ [][NextMsg]_vars

(***************************************************************************)
(* The CRC engine: one call of checksum, checksum_compare or               *)
(* modescrc_buffer_crc on a byte slice and an optional bit count.  The     *)
(* slices are the decoder's payloads, a DF17 and a DF11 frame whose        *)
(* transmitted checksum matches, each of them with one bit inverted or     *)
(* with its last 3 bytes replaced, and slices of other lengths.            *)
(***************************************************************************)
\* 8D 48 40 D6 20 2C C3 71 C3 2C E0 57 60 98
FrameDF17 == PayloadOf(ContentLong)
\* 5D 48 40 D6 F8 74 0F
FrameDF11 == <<93, 72, 64, 214, 248, 116, 15>>

\* data with bit j inverted, bit 0 being the first bit on the wire
FlipBit(data, j) ==
    [data EXCEPT ![j \div 8 + 1] = BitXor(@, 2 ^ (7 - (j % 8)))]

ReplaceTail(data, tail) == SubSeq(data, 1, Len(data) - 3) \o tail

\* replacements for the last 3 bytes of a frame
Tails == {<<0, 0, 0>>, <<255, 255, 255>>, <<128, 0, 0>>, <<0, 0, 1>>, <<1, 2, 3>>}

CrcData ==
    Payloads
    \cup {FlipBit(FrameDF17, j) : j \in 0..111}
    \cup {FlipBit(FrameDF11, j) : j \in 0..55}
    \cup {ReplaceTail(f, t) : f \in {FrameDF17, FrameDF11},
                              t \in {<<0, 0, 0>>, <<255, 255, 255>>}}
    \cup {<<1, 2>>, <<0, 0, 0>>, <<1, 2, 0, 0, 0>>, <<1, 2, 3, 4, 5>>,
          SubSeq(FrameDF17, 1, 11), SubSeq(FrameDF17, 1, 8)}

\* bits: absent, or Some(b)
CrcBits == {NoBits, 0, 16, 24, 56, 64, 88, 112}

Call(fn, data, bits, arg, panic, value, ok) ==
    [fn |-> fn, data |-> data, bits |-> bits, arg |-> arg,
     panic |-> panic, value |-> value, ok |-> ok]

Checksum(data, bits) ==
    /\ fcall = NoFunction
    /\ fcall' = IF ChecksumPanics(data, bits)
                THEN Call("checksum", data, bits, 0, TRUE, 0, FALSE)
                ELSE Call("checksum", data, bits, 0, FALSE, checksum(data, bits), FALSE)
    /\ UNCHANGED <<deframer, decoder>>

ChecksumCompare(data, bits) ==
    /\ fcall = NoFunction
    /\ fcall' = IF ChecksumComparePanics(data, bits)
                THEN Call("checksum_compare", data, bits, 0, TRUE, 0, FALSE)
                ELSE Call("checksum_compare", data, bits, 0, FALSE, 0,
                          checksum_compare(data, bits))
    /\ UNCHANGED <<deframer, decoder>>

ModescrcBufferCrc(data, bits) ==
    /\ fcall = NoFunction
    /\ fcall' = IF BufferCrcPanics(data, bits)
                THEN Call("modescrc_buffer_crc", data, bits, 0, TRUE, 0, FALSE)
                ELSE Call("modescrc_buffer_crc", data, bits, 0, FALSE,
                          modescrc_buffer_crc(data, bits), FALSE)
    /\ UNCHANGED <<deframer, decoder>>

NextCrc ==
    \/ \E data \in CrcData, bits \in CrcBits : Checksum(data, bits)
    \/ \E data \in CrcData, bits \in CrcBits : ChecksumCompare(data, bits)
    \/ \E data \in CrcData, bits \in CrcBits : ModescrcBufferCrc(data, bits)

SpecCrc == Init /\ [][NextCrc]_vars

(***************************************************************************)
(* The altitude decoders: one call of decode_ac13 on a 13-bit field or of  *)
(* decode_ac12 on a 12-bit field.                                          *)
(***************************************************************************)
DecodeAc13(ac13) ==
    /\ fcall = NoFunction
    /\ fcall' = LET r == decode_ac13(ac13)
                IN  Call("decode_ac13", <<>>, NoBits, ac13, FALSE, r.value, r.some)
    /\ UNCHANGED <<deframer, decoder>>

DecodeAc12(ac12) ==
    /\ fcall = NoFunction
    /\ fcall' = LET r == decode_ac12(ac12)
                IN  Call("decode_ac12", <<>>, NoBits, ac12, FALSE, r.value, r.some)
    /\ UNCHANGED <<deframer, decoder>>

NextAlt ==
    \/ \E ac13 \in 0..8191 : DecodeAc13(ac13)
    \/ \E ac12 \in 0..4095 : DecodeAc12(ac12)

SpecAlt == Init /\ [][NextAlt]_vars

(***************************************************************************)
(* The wire format read position by position, for the claims: a 0x1A is a  *)
(* control byte when an even number of 0x1A bytes stands directly before   *)
(* it (it is not the second byte of a doubled pair).                       *)
(***************************************************************************)
RECURSIVE RunBefore(_, _)
RunBefore(buf, i) ==
    IF i = 1 \/ buf[i - 1] # Esc THEN 0 ELSE 1 + RunBefore(buf, i - 1)

IsControl(buf, i) == buf[i] = Esc /\ RunBefore(buf, i) % 2 = 0

StartPositions(buf) ==
    {i \in 1..(Len(buf) - 1) : IsControl(buf, i) /\ buf[i + 1] \in Markers}

RECURSIVE SortedSeq(_)
SortedSeq(S) ==
    IF S = {} THEN <<>>
    ELSE LET m == CHOOSE x \in S : \A y \in S : x <= y
         IN <<m>> \o SortedSeq(S \ {m})

\* a stretch of wire bytes with each doubled pair read as one literal 0x1A
RECURSIVE Collapse(_)
Collapse(seg) ==
    IF seg = <<>> THEN <<>>
    ELSE IF Head(seg) = Esc /\ Len(seg) >= 2 /\ seg[2] = Esc
    THEN <<Esc>> \o Collapse(SubSeq(seg, 3, Len(seg)))
    ELSE <<Head(seg)>> \o Collapse(Tail(seg))

\* the frames that the start markers of buf terminate, in stream order
TerminatedFrames(buf) ==
    LET p == SortedSeq(StartPositions(buf))
        lead == IF p = <<>> THEN <<>> ELSE Collapse(SubSeq(buf, 1, p[1] - 1))
        between == [k \in 1..(Len(p) - 1) |->
                        Collapse(SubSeq(buf, p[k] + 1, p[k + 1] - 1))]
    IN  (IF lead = <<>> THEN <<>> ELSE <<lead>>) \o between

\* the bytes behind the last start marker of buf (all of buf if it has none)
Accumulating(buf) ==
    LET p == SortedSeq(StartPositions(buf))
    IN  IF p = <<>> THEN Collapse(buf)
        ELSE Collapse(SubSeq(buf, p[Len(p)] + 1, Len(buf)))

WellFormed(mm) == mm # <<>> /\ mm[1] \in Markers /\ Len(mm) = FrameLen(mm[1])

IsAll == last.fn = "read_beast_buffer"
IsOne == last.fn = "read_single_frame"

(***************************************************************************)
(* C1: streaming equivalence of read_beast_buffer: scanning chunk1 and     *)
(* then remainder ++ chunk2 completes the same frames in the same order    *)
(* and leaves the same remainder as scanning chunk1 ++ chunk2 in one call. *)
(***************************************************************************)
C1_StreamingEquivalence ==
    calls = 2 =>
        LET whole == read_beast_buffer(stream, {})
        IN  /\ emitted = whole.messages_mlat
            /\ buffer = whole.buffer

(***************************************************************************)
(* C2: for an input without any 0x1A byte read_beast_buffer returns zero   *)
(* frames and a remainder equal to the bytes supplied.                     *)
(***************************************************************************)
C2_RemainderIsInput ==
    (IsAll /\ Esc \notin Range(last.input)) =>
        /\ last.kind = "Ok"
        /\ last.frames = <<>>
        /\ last.buffer = last.input

(***************************************************************************)
(* C2 as amended: for an input without any 0x1A byte read_beast_buffer     *)
(* returns zero frames and a remainder that is 0x1A followed by the bytes  *)
(* supplied, or empty when no byte was supplied.                           *)
(***************************************************************************)
C2_RemainderIsEscInput ==
    (IsAll /\ Esc \notin Range(last.input)) =>
        /\ last.kind = "Ok"
        /\ last.frames = <<>>
        /\ last.buffer = IF last.input = <<>> THEN <<>> ELSE <<Esc>> \o last.input

C2_Witness ==
    /\ IsAll
    /\ Esc \notin Range(last.input)
    /\ Len(last.input) >= 2
    /\ last.buffer = <<Esc>> \o last.input

(***************************************************************************)
(* C3: byte-stuffing round trip: the wire encoding of a frame content of   *)
(* valid length (0x1A prefixed, every 0x1A of the content doubled) is      *)
(* accumulated back to exactly the content by both scans, and the frame    *)
(* that read_single_frame returns carries the content's bytes.             *)
(***************************************************************************)
C3_RoundTrip ==
    last.input \in EncodedContents =>
        /\ last.msg \in Contents
        /\ Encode(last.msg) = last.input
        /\ (IsOne /\ last.kind = "Ok") =>
               /\ last.frames[1].message_type = last.msg[1]
               /\ last.frames[1].signal = last.msg[8]
               /\ last.frames[1].data = SubSeq(last.msg, 9, Len(last.msg))
               /\ last.frames[1].hex = HexString(<<Esc>> \o last.msg)

\* a content whose last byte is 0x1A and that has a 0x1A directly before 0x31
C3_Witness ==
    /\ IsOne
    /\ last.kind = "Ok"
    /\ last.msg \in Contents
    /\ last.input = Encode(last.msg)
    /\ last.msg[Len(last.msg)] = Esc
    /\ \E i \in 2..(Len(last.msg) - 1) : last.msg[i] = Esc /\ last.msg[i + 1] = TypeModeAC

(***************************************************************************)
(* C4: in read_beast_buffer each control 0x1A followed by 0x31, 0x32 or    *)
(* 0x33 terminates the frame being accumulated: the completed frames are   *)
(* exactly the non-empty stretches of bytes that the start markers end, in *)
(* the order of the markers, each frame behind a marker begins with its    *)
(* type marker, and the bytes behind the last marker stay accumulated.  A  *)
(* call that returns frames returns one per completed frame, in that order.*)
(***************************************************************************)
C4_StartMarkerTerminates ==
    IsAll =>
        /\ last.messages_mlat = TerminatedFrames(last.input)
        /\ last.msg = Accumulating(last.input)
        /\ \A k \in 2..Len(last.messages_mlat) : last.messages_mlat[k][1] \in Markers
        /\ StartPositions(last.input) # {} => last.msg[1] \in Markers
        /\ last.kind = "Ok" =>
               /\ Len(last.frames) = Len(last.messages_mlat)
               /\ \A k \in 1..Len(last.frames) :
                      /\ last.frames[k].message_type = last.messages_mlat[k][1]
                      /\ last.frames[k].data = PayloadOf(last.messages_mlat[k])

\* three start markers, the last behind a doubled 0x1A: two frames completed,
\* the second with literal 0x1A bytes, the third accumulating
C4_Witness ==
    /\ IsAll
    /\ Len(last.messages_mlat) = 2
    /\ last.messages_mlat[1][1] \in Markers
    /\ last.messages_mlat[2][1] \in Markers
    /\ Esc \in Range(last.messages_mlat[2])
    /\ last.msg # <<>>
    /\ last.msg[1] \in Markers
    /\ last.kind = "Ok"
    /\ Len(last.frames) = 2

(***************************************************************************)
(* C5: batch skip-and-continue: read_beast_buffer returns every            *)
(* well-formed completed frame of the buffer, whatever malformed frames    *)
(* stand before or after it.                                               *)
(***************************************************************************)
C5_SkipAndContinue ==
    (IsAll /\ last.kind \in {"Ok", "Err"}) =>
        \A k \in 1..Len(last.messages_mlat) :
            WellFormed(last.messages_mlat[k]) =>
                \E j \in 1..Len(last.frames) :
                    /\ last.frames[j].message_type = last.messages_mlat[k][1]
                    /\ last.frames[j].data = PayloadOf(last.messages_mlat[k])

(***************************************************************************)
(* C6: the deframer entry points are total: whatever the input, a call     *)
(* ends with frames or with an error value and never fails fatally in the  *)
(* deframer's own code, as by indexing an empty accumulated frame.  (A     *)
(* failure of the external payload decoder, panic_unwrap, is left aside.)  *)
(***************************************************************************)
C6_Total == last.kind \in {"none", "Ok", "Err", "panic_unwrap"}

(***************************************************************************)
(* C7: every frame returned by read_single_frame or read_beast_buffer      *)
(* comes from 10, 15 or 22 accumulated bytes for markers 0x31, 0x32, 0x33; *)
(* its timestamp is the 48-bit big-endian value of bytes 1..6 zero-        *)
(* extended to 64 bits, its signal is byte 7 and its payload is bytes 8 to *)
(* the end (2, 7 or 14 bytes).                                             *)
(***************************************************************************)
C7_FrameFields ==
    last.kind = "Ok" =>
        LET raws == IF IsOne THEN <<last.msg>> ELSE last.messages_mlat
        IN  /\ Len(last.frames) = Len(raws)
            /\ \A k \in 1..Len(raws) :
                LET mm == raws[k]
                    f == last.frames[k]
                IN  /\ Len(mm) = (CASE mm[1] = 49 -> 10 [] mm[1] = 50 -> 15 [] mm[1] = 51 -> 22)
                    /\ f.message_type = mm[1]
                    /\ f.timestamp[1] = 0
                    /\ f.timestamp[2] = 256 * mm[2] + mm[3]
                    /\ f.timestamp[3] = 256 * mm[4] + mm[5]
                    /\ f.timestamp[4] = 256 * mm[6] + mm[7]
                    /\ f.signal = mm[8]
                    /\ f.data = [i \in 1..(Len(mm) - 8) |-> mm[i + 8]]
                    /\ Len(f.data) = (CASE mm[1] = 49 -> 2 [] mm[1] = 50 -> 7 [] mm[1] = 51 -> 14)

\* read_beast_buffer returned a long frame with a 0x1A among its timestamp bytes
C7_Witness ==
    /\ IsAll
    /\ last.kind = "Ok"
    /\ Len(last.frames) = 1
    /\ last.frames[1].message_type = TypeLong
    /\ \E i \in 2..7 : last.messages_mlat[1][i] = Esc

(***************************************************************************)
(* For the claims on decode: the CRC residual of a payload is the parity   *)
(* computed over its bits xored with the checksum it transmits.            *)
(***************************************************************************)
Residual(data) == BitXor(checksum(data, NoBits), modescrc_buffer_crc(data, NoBits))

Decoded == msgop = "decode"

C9_DF11Validity ==
    (Decoded /\ message.datalen = 7 /\ Len(message.data) = 7 /\ message.df = 11) =>
        /\ message.valid <=> (Residual(message.data) \div 128 = 0)
        /\ message.valid =>
               message.address = 65536 * message.data[2] + 256 * message.data[3]
                                 + message.data[4]

(***************************************************************************)
(* C10: DF17/18 decode: a 14-byte payload of downlink format 17 or 18      *)
(* decodes to the address that is the big-endian 24-bit value of bytes     *)
(* 1-3, and when metype (bits 7..3 of byte 4) is in 9..18 or 20..21        *)
(* exactly one CPR flag is set: odd_cpr if bit 2 of byte 6 is set,         *)
(* otherwise even_cpr.                                                     *)
(***************************************************************************)
C10_DF17Decode ==
    (Decoded /\ message.datalen = 14 /\ Len(message.data) = 14
        /\ message.df \in {17, 18}) =>
        LET metype == message.data[5] \div 8
            bit2 == (message.data[7] \div 4) % 2 = 1
        IN  /\ message.address = 65536 * message.data[2] + 256 * message.data[3]
                                 + message.data[4]
            /\ (metype \in 9..18 \/ metype \in 20..21) =>
                   /\ message.odd_cpr <=> bit2
                   /\ message.even_cpr <=> ~bit2

(***************************************************************************)
(* C11: interrogation replies: a correctly sized payload of downlink       *)
(* format 0, 4, 5, 16, 20 or 21 decodes with crc equal to the CRC residual *)
(* of the payload and address equal to that residual.                      *)
(***************************************************************************)
C11_ReplyAddressIsResidual ==
    (Decoded /\ message.datalen = Len(message.data)
        /\ message.df \in {0, 4, 5, 16, 20, 21}
        /\ Len(message.data) = (IF message.df < 16 THEN 7 ELSE 14)) =>
        /\ message.crc = Residual(message.data)
        /\ message.address = message.crc

(***************************************************************************)
(* C12: decode is total: for a payload of length 2, 7 or 14 decode         *)
(* returns and leaves a record; a downlink format 0, 4, 16 or 20 whose     *)
(* 13-bit altitude field decode_ac13 cannot decode gets a sentinel         *)
(* altitude and decode does not fail fatally.                              *)
(***************************************************************************)
C12_DecodeTotal ==
    (msgop \in {"decode", "decode_panic"} /\ message.datalen = Len(message.data)
        /\ Len(message.data) \in {2, 7, 14}) =>
        msgop = "decode"

(***************************************************************************)
(* C13: for every data and bits, checksum_compare(data, bits) answers, and *)
(* its answer is true exactly when checksum(data, bits) equals             *)
(* modescrc_buffer_crc(data, bits), the transmitted 24-bit checksum; data  *)
(* whose length is neither 7 nor 14 with bits absent included.             *)
(***************************************************************************)
C13_CompareIffEqual ==
    fcall.fn = "checksum_compare" =>
        /\ ~fcall.panic
        /\ fcall.ok <=> (checksum(fcall.data, fcall.bits)
                            = modescrc_buffer_crc(fcall.data, fcall.bits))

(***************************************************************************)
(* C14: a 14-byte frame whose last 3 bytes equal checksum applied to the   *)
(* frame's first 11 bytes compares true under checksum_compare.            *)
(***************************************************************************)
C14_ConstructedFrame ==
    (fcall.fn = "checksum_compare" /\ fcall.bits = NoBits /\ Len(fcall.data) = 14
        /\ modescrc_buffer_crc(fcall.data, NoBits)
               = checksum(SubSeq(fcall.data, 1, 11), NoBits)) =>
        fcall.ok

(***************************************************************************)
(* C14 as amended: a 14-byte frame whose last 3 bytes equal checksum       *)
(* applied to the whole 14-byte frame compares true under                  *)
(* checksum_compare.                                                       *)
(***************************************************************************)
C14_ConstructedWholeFrame ==
    (fcall.fn = "checksum_compare" /\ fcall.bits = NoBits /\ Len(fcall.data) = 14
        /\ SubSeq(fcall.data, 12, 14) =
               LET c == checksum(fcall.data, NoBits)
               IN  <<c \div 65536, (c \div 256) % 256, c % 256>>) =>
        /\ ~fcall.panic
        /\ fcall.ok

\* the DF17 frame 8D 48 40 D6 20 2C C3 71 C3 2C E0 with its checksum 57 60 98
C14_Witness ==
    /\ fcall.fn = "checksum_compare"
    /\ fcall.bits = NoBits
    /\ fcall.data = <<141, 72, 64, 214, 32, 44, 195, 113, 195, 44, 224, 87, 96, 152>>
    /\ checksum(fcall.data, NoBits) = 87 * 65536 + 96 * 256 + 152
    /\ fcall.ok

(***************************************************************************)
(* C15: the transmitted checksum bits do not contribute to checksum: for a *)
(* 7-byte and for a 14-byte frame checksum(data) is the same whatever the  *)
(* last 3 bytes of data are, the parity-table entries of the last 24 bit   *)
(* positions being zero.                                                   *)
(***************************************************************************)
C15_TailIgnored ==
    (fcall.fn = "checksum" /\ fcall.bits = NoBits /\ Len(fcall.data) \in {7, 14}) =>
        /\ ~fcall.panic
        /\ \A t \in Tails : checksum(ReplaceTail(fcall.data, t), NoBits) = fcall.value
        /\ \A j \in (Len(fcall.data) * 8 - 24)..(Len(fcall.data) * 8 - 1) :
               PARITY_TABLE[j + 1 + (112 - Len(fcall.data) * 8)] = 0

\* a 7-byte frame with a non-zero checksum and bits set among its last 3 bytes
C15_Witness ==
    /\ fcall.fn = "checksum"
    /\ fcall.bits = NoBits
    /\ Len(fcall.data) = 7
    /\ fcall.value # 0
    /\ SubSeq(fcall.data, 5, 7) = <<248, 116, 15>>

(***************************************************************************)
(* For the claims on decode_ac13: bit k of a field, and the value of a     *)
(* Gray-coded bit sequence (most significant bit first), each binary bit   *)
(* being the parity of the Gray bits down to its position.                 *)
(***************************************************************************)
Bit(x, k) == (x \div (2 ^ k)) % 2

RECURSIVE GrayValue(_, _, _)
GrayValue(g, i, p) ==
    IF i > Len(g) THEN 0
    ELSE LET b == (p + g[i]) % 2
         IN  b * 2 ^ (Len(g) - i) + GrayValue(g, i + 1, b)

\* the hundreds group of bits C1 C2 C4, with 5 xored in where h & 5 # 0
HundredsGroup(x) ==
    <<0, 4, 2, 6, 1, 0, 3, 2>>[GrayValue(<<Bit(x, 12), Bit(x, 10), Bit(x, 8)>>, 1, 0) + 1]

\* the five-hundreds index of bits D1 D2 D4 A1 A2 A4 B1 B2 B4
FiveHundreds(x) ==
    GrayValue(<<Bit(x, 4), Bit(x, 2), Bit(x, 0), Bit(x, 11), Bit(x, 9), Bit(x, 7),
                Bit(x, 5), Bit(x, 3), Bit(x, 1)>>, 1, 0)

(***************************************************************************)
(* C16: decode_ac13 yields no value when the field is zero or bit 6 (the M *)
(* bit) is set; otherwise, when bit 4 (the Q bit) is set, it yields        *)
(* n * 25 - 1000, n being bits 12..7, bit 5 and bits 3..0 of the field     *)
(* put together as an 11-bit number.                                       *)
(***************************************************************************)
C16_QBitAltitude ==
    fcall.fn = "decode_ac13" =>
        LET x == fcall.arg
            n == (x \div 128) * 32 + Bit(x, 5) * 16 + (x % 16)
        IN  /\ (x = 0 \/ Bit(x, 6) = 1) => ~fcall.ok
            /\ (x # 0 /\ Bit(x, 6) = 0 /\ Bit(x, 4) = 1) =>
                   fcall.ok /\ fcall.value = n * 25 - 1000

\* the field 0x0530 of the reply payload 20 00 05 30 ..: n = 336, 7400 feet
C16_Witness ==
    /\ fcall.fn = "decode_ac13"
    /\ fcall.arg = 1328
    /\ fcall.ok
    /\ fcall.value = 7400

(***************************************************************************)
(* C20: decode_ac13 on a non-zero field with bits 6 and 4 clear (Gillham   *)
(* code): no value when no bit under mask 0x1500 is set or the hundreds    *)
(* group h exceeds 5; otherwise the altitude 500 * f + 100 * h - 1300 with *)
(* h replaced by 6 - h when f is odd, and no value when that altitude is   *)
(* below -1200.  Every altitude decode_ac13 returns is at least -1200.     *)
(***************************************************************************)
C20_GillhamAltitude ==
    fcall.fn = "decode_ac13" =>
        LET x == fcall.arg
            h == HundredsGroup(x)
            f == FiveHundreds(x)
            a == 500 * f + 100 * (IF f % 2 = 1 THEN 6 - h ELSE h) - 1300
            illegal == Bit(x, 12) = 0 /\ Bit(x, 10) = 0 /\ Bit(x, 8) = 0
        IN  /\ fcall.ok => fcall.value >= -1200
            /\ (x # 0 /\ Bit(x, 6) = 0 /\ Bit(x, 4) = 0) =>
                   IF illegal \/ h > 5 \/ a < -1200
                   THEN ~fcall.ok
                   ELSE fcall.ok /\ fcall.value = a

\* the field 0x0102: h = 4, f = 1 is odd, so h becomes 2 and the altitude -600
C20_Witness ==
    /\ fcall.fn = "decode_ac13"
    /\ fcall.arg = 258
    /\ HundredsGroup(fcall.arg) = 4
    /\ FiveHundreds(fcall.arg) = 1
    /\ fcall.ok
    /\ fcall.value = -600

(***************************************************************************)
(* C17: every event constructor (ModesMessage::new_event_message of        *)
(* modes.rs and of modes_message.rs, modesmessage_new_eventmessage)        *)
(* returns a record whose downlink format is the event sentinel supplied,  *)
(* whose timestamp is the timestamp supplied and whose event data is the   *)
(* mapping supplied, with valid false and an empty payload.                *)
(***************************************************************************)
C17_EventRecord ==
    msgop = "new_event_message" =>
        /\ message.df = msgargs.event_type
        /\ message.timestamp = msgargs.timestamp
        /\ message.eventdata = msgargs.eventdata
        /\ ~message.valid
        /\ message.data = <<>>

(***************************************************************************)
(* C18: a record built from a raw frame (ModesMessage::from_buffer of      *)
(* modes.rs and of modes_message.rs, modesmessage_from_buffer) carries the *)
(* timestamp, the signal and the payload bytes supplied.                   *)
(***************************************************************************)
C18_CarriedThrough ==
    msgop = "from_buffer" =>
        /\ message.timestamp = msgargs.timestamp
        /\ message.signal = msgargs.signal
        /\ message.data = msgargs.data

(***************************************************************************)
(* C19: the remainder of read_beast_buffer: when bytes are still           *)
(* accumulated at the end of the buffer, the remainder is one 0x1A         *)
(* followed by the accumulated bytes with every 0x1A among them doubled,   *)
(* a last one included, and scanning the remainder alone completes no      *)
(* frame and accumulates the same bytes again; when nothing is accumulated *)
(* the remainder is empty.                                                 *)
(***************************************************************************)
C19_RemainderRescans ==
    IsAll =>
        IF last.msg = <<>>
        THEN last.buffer = <<>>
        ELSE /\ last.buffer = <<Esc>> \o Stuff(last.msg)
             /\ BeastScan(last.buffer).messages_mlat = <<>>
             /\ BeastScan(last.buffer).msg = last.msg

(***************************************************************************)
(* C21: rejected formats stay invalid and zeroed: for a record whose       *)
(* payload has a length other than 2 and either a length that does not     *)
(* match its downlink format (7 bytes for a format below 16, 14 bytes      *)
(* otherwise) or a format that is not one of 0, 4, 5, 11, 16, 17, 18, 20,  *)
(* 21, decode returns with valid false and nuc, even_cpr, odd_cpr, crc,    *)
(* address and altitude at zero or false; it sets the downlink format to   *)
(* bits 7..3 of the first byte and leaves timestamp, signal and payload as *)
(* they were.                                                              *)
(***************************************************************************)
C21_RejectedStaysZeroed ==
    (msgop \in {"decode", "decode_panic"} /\ message.data # <<>>
        /\ Len(message.data) # 2
        /\ LET df == message.data[1] \div 8
           IN  \/ Len(message.data) # (IF df < 16 THEN 7 ELSE 14)
               \/ df \notin {0, 4, 5, 11, 16, 17, 18, 20, 21}) =>
        /\ msgop = "decode"
        /\ ~message.valid
        /\ message.nuc = 0
        /\ ~message.even_cpr
        /\ ~message.odd_cpr
        /\ message.crc = 0
        /\ message.address = 0
        /\ message.altitude = 0
        /\ message.df = message.data[1] \div 8
        /\ message.timestamp = msgargs.timestamp
        /\ message.signal = msgargs.signal
        /\ message.data = msgargs.data

\* a DF11 payload of 14 bytes, in a record whose derived fields were set
\* before decode
C21_Witness ==
    /\ msgop = "decode"
    /\ msgargs.fn = "new"
    /\ message.data = <<93, 72, 64, 214, 248, 116, 15, 0, 0, 0, 0, 0, 0, 0>>
    /\ message.datalen = 14
    /\ message.df = 11
    /\ ~message.valid
    /\ message.address = 0

(***************************************************************************)
(* For the claim on held-back frames: buf consists of whole frames when it *)
(* begins with a start marker and every stretch between start markers,    *)
(* the one behind the last marker included, is a well-formed frame.        *)
(***************************************************************************)
WholeFrames(buf) ==
    /\ 1 \in StartPositions(buf)
    /\ \A k \in 1..Len(TerminatedFrames(buf)) : WellFormed(TerminatedFrames(buf)[k])
    /\ WellFormed(Accumulating(buf))

(***************************************************************************)
(* C22: read_beast_buffer completes a frame only at the start marker of a  *)
(* following frame in the same buffer: it completes at most one frame per  *)
(* start marker, the bytes behind the last start marker are never among    *)
(* the frames of the call, even when they form a whole well-formed frame,  *)
(* and are held back in the remainder; a buffer of exactly N >= 1 whole    *)
(* frames yields at most N - 1 frames, and N - 1 when the call returns     *)
(* frames.                                                                 *)
(***************************************************************************)
C22_LastFrameHeldBack ==
    IsAll =>
        /\ Len(last.messages_mlat) <= Cardinality(StartPositions(last.input))
        /\ Len(last.frames) <= Len(last.messages_mlat)
        /\ last.msg = Accumulating(last.input)
        /\ last.msg # <<>> =>
               /\ last.buffer # <<>>
               /\ last.buffer[1] = Esc
               /\ Collapse(Tail(last.buffer)) = last.msg
        /\ WholeFrames(last.input) =>
               LET N == Cardinality(StartPositions(last.input))
               IN  /\ Len(last.frames) <= N - 1
                   /\ last.kind = "Ok" => Len(last.frames) = N - 1
                   /\ WellFormed(last.msg)
                   /\ Len(last.messages_mlat) = N - 1

\* a buffer of two whole frames: one frame returned, the second held back
C22_Witness ==
    /\ IsAll
    /\ WholeFrames(last.input)
    /\ Cardinality(StartPositions(last.input)) = 2
    /\ last.kind = "Ok"
    /\ Len(last.frames) = 1
    /\ WellFormed(last.msg)
    /\ last.buffer = Encode(last.msg)

(***************************************************************************)
(* C23: in every record a constructor returns (new, from_buffer,           *)
(* modesmessage_from_buffer, the event constructors) datalen is the number *)
(* of bytes in data, and decode leaves it so.                              *)
(***************************************************************************)
C23_DatalenIsLength == message.datalen = Len(message.data)

====
